---- MODULE Spec2Model ----
(***************************************************************************)
(* Model of the request/response correlation engine of                     *)
(* deribit_python/async_client.py (class DeribitAsyncClient): the pending  *)
(* request table, the background receive loop (_listen), the per-call      *)
(* dispatcher (_make_request) and the lifecycle operations (__aenter__,    *)
(* create, close, __aexit__).                                              *)
(*                                                                         *)
(* Every asyncio task is a process whose steps are the code between two    *)
(* suspension points (await): asyncio runs one task at a time, so such a   *)
(* stretch of code is atomic.                                              *)
(***************************************************************************)
EXTENDS Integers, Sequences, FiniteSets, TLC

\* ------------------------------------------------------------------ bounds
NumCalls == 2      \* invocations of _make_request, each in its own task
MaxFrames == 2     \* frames the peer sends on the connection in one run
MaxWire == 1       \* frames received and not yet read by recv()
MaxOrphans == 1    \* opens of a client whose listener is still running

Calls == 1 .. NumCalls

\* ------------------------------------------------------------- identifiers
\* Python's None, as the value of response.get("id") when the key is absent.
NoneId == 0

\* str(uuid.uuid4()) of the c-th request: distinct requests get distinct ids.
uuid4(c) == c

\* An id no request of this client ever carried (a frame the peer makes up).
UnknownId == NumCalls + 1

\* ------------------------------------------------------------------ frames
\* An inbound text frame, by what json.loads makes of it:
\*   text   "garbage"  not decodable JSON
\*          "array"    decodable JSON that is not an object
\*          "object"   a JSON object; id = NoneId when it has no "id" key
\*   body   which of "result"/"error" the object carries
NoFrame == [text |-> "none", id |-> NoneId, body |-> "none"]

ResponseFrame(i, b) == [text |-> "object", id |-> i, body |-> b]

GarbageFrame == [text |-> "garbage", id |-> NoneId, body |-> "none"]

ArrayFrame == [text |-> "array", id |-> NoneId, body |-> "none"]

Bodies == {"result", "error"}

MalformedFrames == {GarbageFrame, ArrayFrame, ResponseFrame(NoneId, "result")}

VARIABLES
    websocket,         \* self.websocket: "None" or "conn" (a connection object)
    connState,         \* state of that connection: "open" or "closed"
    listener_task,     \* self.listener_task: "unset", "pending", "returned",
                       \* "cancelled", or the exception that ended _listen
    pending_requests,  \* self.pending_requests: request id -> future (its call)
    fut,               \* fut[c]: the future created by call c: its state
                       \* ("none", "pending", "finished", "cancelled") and result
    pc,                \* pc[c]: where call c's task is inside _make_request
    outcome,           \* outcome[c]: how call c ended
    wire,              \* inbound frames received and not yet read by recv()
    serverGot,         \* request ids whose frame was written to the connection
    framesSent,        \* number of frames the peer has sent
    closer,            \* position of the task running close()/__aexit__
    closeOutcome,      \* how the last close()/__aexit__ since the client was
                       \* opened ended: "returned" or the exception raised;
                       \* "none" when there was none
    orphans,           \* _listen tasks still pending whose handle in
                       \* self.listener_task was overwritten by a later open
    args,              \* arguments of the function applied (function level)
    ret                \* what that function returned or raised

clientVars == <<websocket, connState, listener_task, pending_requests, fut,
                pc, outcome, wire, serverGot, framesSent, closer, closeOutcome,
                orphans>>

pureVars == <<args, ret>>

vars == <<clientVars, pureVars>>

callVars == <<fut, pc, outcome>>

peerVars == <<wire, serverGot, framesSent>>

lifeVars == <<closer, closeOutcome>>

\* ---------------------------------------------------------------- futures
NoFuture == [state |-> "none", result |-> NoFrame]

PendingFuture == [state |-> "pending", result |-> NoFrame]

FutureDone(f) == f.state \in {"finished", "cancelled"}

\* ------------------------------------------------------- function level
\* No function is being applied.
NoArgs == [fn |-> "none"]

NoRet == [kind |-> "none"]

\* ------------------------------------------------------------------- Init
ClientInit ==
    /\ websocket = "None"
    /\ connState = "closed"
    /\ listener_task = "unset"
    /\ pending_requests = << >>
    /\ fut = [c \in Calls |-> NoFuture]
    /\ pc = [c \in Calls |-> "idle"]
    /\ outcome = [c \in Calls |-> "none"]
    /\ wire = << >>
    /\ serverGot = {}
    /\ framesSent = 0
    /\ closer = "idle"
    /\ closeOutcome = "none"
    /\ orphans = 0

Init ==
    /\ ClientInit
    /\ args = NoArgs
    /\ ret = NoRet

\* --------------------------------------------------- the dict operations
\* d[k] = v on a Python dict: inserts the key, or replaces its value.
DictSet(d, k, v) == [x \in (DOMAIN d) \cup {k} |-> IF x = k THEN v ELSE d[x]]

\* Mutant of DictDel: the table is replaced by an empty one.
DictDel_clear(d, k) == << >>

\* del d[k]
DictDel(d, k) == [x \in (DOMAIN d) \ {k} |-> d[x]]

\* ----------------------------------------------------------- lifecycle
\* __aenter__ (and the classmethod create, which runs the same two
\* statements on a new instance): connect, then start _listen as a task.
\* Neither looks at the state of the client: a listener that is still
\* running stays running, blocked in recv() on the connection it was
\* started on, and only its handle is overwritten.  The new connection has
\* nothing buffered and its peer has received nothing.
aenter ==
    /\ websocket' = "conn"
    /\ connState' = "open"
    /\ listener_task' = "pending"
    /\ orphans' = IF listener_task = "pending" THEN orphans + 1 ELSE orphans
    /\ wire' = << >>
    /\ serverGot' = {}
    /\ closeOutcome' = "none"
    /\ UNCHANGED <<pending_requests, callVars, framesSent, closer, pureVars>>

\* The client is opened for the first time.
aenterFirst ==
    /\ websocket = "None"
    /\ aenter

\* What `task.cancel(); await task` leaves of the listener task, and how the
\* awaiting coroutine ends: a pending task is cancelled (the CancelledError
\* is swallowed), a returned one yields None, a task that died with an
\* exception re-raises it in the awaiter.
CancelAndAwait(task) ==
    IF task = "pending" THEN [task |-> "cancelled", awaiter |-> "returned"]
    ELSE IF task \in {"returned", "cancelled"}
         THEN [task |-> task, awaiter |-> "returned"]
         ELSE [task |-> task, awaiter |-> task]

\* close() after `await self.websocket.close()`: the listener is cancelled
\* and awaited if the attribute exists.
closeListener(task) ==
    IF task # "unset" THEN CancelAndAwait(task)
    ELSE [task |-> task, awaiter |-> "returned"]

\* __aexit__ after `await self.websocket.close()`: self.listener_task is
\* read without a hasattr guard.
aexitListener(task) ==
    IF task # "unset" THEN CancelAndAwait(task)
    ELSE [task |-> task, awaiter |-> "AttributeError"]

\* close() from its first line: with a websocket it suspends in
\* `await self.websocket.close()`, which closes the connection; without one
\* it runs to its end without suspending.
closeBegin ==
    /\ closer = "idle"
    /\ IF websocket # "None"
       THEN /\ connState' = "closed"
            /\ closer' = "close"
            /\ UNCHANGED <<listener_task, closeOutcome>>
       ELSE /\ listener_task' = closeListener(listener_task).task
            /\ closeOutcome' = closeListener(listener_task).awaiter
            /\ UNCHANGED <<connState, closer>>
    /\ UNCHANGED <<websocket, pending_requests, callVars, peerVars>>
    /\ UNCHANGED <<orphans, pureVars>>

\* close(), from `if hasattr(self, 'listener_task') ...` to its end.
closeFinish ==
    /\ closer = "close"
    /\ closer' = "idle"
    /\ listener_task' = closeListener(listener_task).task
    /\ closeOutcome' = closeListener(listener_task).awaiter
    /\ UNCHANGED <<websocket, connState, pending_requests, callVars, peerVars>>
    /\ UNCHANGED <<orphans, pureVars>>

\* __aexit__ from its first line, as close().
aexitBegin ==
    /\ closer = "idle"
    /\ IF websocket # "None"
       THEN /\ connState' = "closed"
            /\ closer' = "aexit"
            /\ UNCHANGED <<listener_task, closeOutcome>>
       ELSE /\ listener_task' = aexitListener(listener_task).task
            /\ closeOutcome' = aexitListener(listener_task).awaiter
            /\ UNCHANGED <<connState, closer>>
    /\ UNCHANGED <<websocket, pending_requests, callVars, peerVars>>
    /\ UNCHANGED <<orphans, pureVars>>

\* __aexit__, from `self.listener_task.cancel()` to its end.
aexitFinish ==
    /\ closer = "aexit"
    /\ closer' = "idle"
    /\ listener_task' = aexitListener(listener_task).task
    /\ closeOutcome' = aexitListener(listener_task).awaiter
    /\ UNCHANGED <<websocket, connState, pending_requests, callVars, peerVars>>
    /\ UNCHANGED <<orphans, pureVars>>

\* ------------------------------------------------------------ the peer
\* The server answers a request it has received, in any order, any number
\* of times (late or duplicate frames), with a result or an error.
ServerReply(i, b) ==
    /\ connState = "open"
    /\ framesSent < MaxFrames
    /\ Len(wire) < MaxWire
    /\ i \in serverGot
    /\ wire' = Append(wire, ResponseFrame(i, b))
    /\ framesSent' = framesSent + 1
    /\ UNCHANGED <<websocket, connState, listener_task, pending_requests,
                   callVars, serverGot, lifeVars>>
    /\ UNCHANGED <<orphans, pureVars>>

\* The peer sends a frame that answers no request: undecodable text, a JSON
\* value that is not an object, an object without id, an unknown id.
ServerUnsolicited(frame) ==
    /\ connState = "open"
    /\ framesSent < MaxFrames
    /\ Len(wire) < MaxWire
    /\ wire' = Append(wire, frame)
    /\ framesSent' = framesSent + 1
    /\ UNCHANGED <<websocket, connState, listener_task, pending_requests,
                   callVars, serverGot, lifeVars>>
    /\ UNCHANGED <<orphans, pureVars>>

\* The connection drops (peer or network).
ConnectionLost ==
    /\ connState = "open"
    /\ connState' = "closed"
    /\ UNCHANGED <<websocket, listener_task, pending_requests, callVars,
                   peerVars, lifeVars>>
    /\ UNCHANGED <<orphans, pureVars>>

\* ------------------------------------------------------------- _listen
\* json.loads(message): the exception it raises, or "ok".
loads(message) == IF message.text = "garbage" THEN "JSONDecodeError" ELSE "ok"

\* Mutant of get_id: response["id"], which raises on an absent key.
get_id_subscript(response) ==
    IF response.text # "object" THEN [exc |-> "TypeError", id |-> NoneId]
    ELSE IF response.id = NoneId THEN [exc |-> "KeyError", id |-> NoneId]
    ELSE [exc |-> "ok", id |-> response.id]

\* response.get("id"): only a dict has .get; an absent key gives None.
get_id(response) ==
    IF response.text = "object" THEN [exc |-> "ok", id |-> response.id]
    ELSE [exc |-> "AttributeError", id |-> NoneId]

\* Mutant of LookupFuture: the oldest pending future, whatever the id.
LookupFuture_first(d, message_id) ==
    d[CHOOSE k \in DOMAIN d : \A j \in DOMAIN d : k <= j]

\* self.pending_requests[message_id]
LookupFuture(d, message_id) == d[message_id]

\* One iteration of the loop of _listen on a frame that recv() returns.
ListenFrame ==
    /\ listener_task = "pending"
    /\ wire # << >>
    /\ wire' = Tail(wire)
    /\ LET message == Head(wire)
           message_id == get_id(message).id
       IN  IF loads(message) # "ok"
           THEN /\ listener_task' = loads(message)
                /\ UNCHANGED <<pending_requests, fut>>
           ELSE IF get_id(message).exc # "ok"
           THEN /\ listener_task' = get_id(message).exc
                /\ UNCHANGED <<pending_requests, fut>>
           ELSE IF message_id \in DOMAIN pending_requests
           THEN LET f == LookupFuture(pending_requests, message_id)
                IN  IF FutureDone(fut[f])
                    THEN \* Future.set_result on a done future
                         /\ listener_task' = "InvalidStateError"
                         /\ UNCHANGED <<pending_requests, fut>>
                    ELSE /\ fut' = [fut EXCEPT ![f] =
                                      [state |-> "finished", result |-> message]]
                         /\ pending_requests' = DictDel(pending_requests, message_id)
                         /\ UNCHANGED listener_task
           ELSE UNCHANGED <<listener_task, pending_requests, fut>>
    /\ UNCHANGED <<websocket, connState, pc, outcome, serverGot, framesSent,
                   lifeVars>>
    /\ UNCHANGED <<orphans, pureVars>>

\* recv() raises ConnectionClosed: `except websockets.ConnectionClosed: pass`.
ListenClosed ==
    /\ listener_task = "pending"
    /\ wire = << >>
    /\ connState = "closed"
    /\ listener_task' = "returned"
    /\ UNCHANGED <<websocket, connState, pending_requests, callVars, peerVars,
                   lifeVars>>
    /\ UNCHANGED <<orphans, pureVars>>

\* ------------------------------------------------------- _make_request
\* JsonRpcResponse.from_dict(response).is_error: self.error is not None
is_error(response) == response.body = "error"

\* Mutant of MakeRequest: the future is not registered before the send.
MakeRequest_unregistered(c) ==
    /\ pc[c] = "idle"
    /\ \A d \in Calls : d < c => pc[d] # "idle"
    /\ IF websocket = "None"
       THEN /\ pc' = [pc EXCEPT ![c] = "done"]
            /\ outcome' = [outcome EXCEPT ![c] = "RuntimeError"]
            /\ UNCHANGED fut
       ELSE /\ fut' = [fut EXCEPT ![c] = PendingFuture]
            /\ pc' = [pc EXCEPT ![c] = "send"]
            /\ UNCHANGED outcome
    /\ UNCHANGED <<websocket, connState, listener_task, pending_requests,
                   peerVars, lifeVars>>
    /\ UNCHANGED <<orphans, pureVars>>

\* _make_request from its first line to the suspension inside
\* websocket.send: the check of self.websocket, the request, the future and
\* its registration (an uncontended asyncio.Lock is taken without yielding).
\* Calls are numbered in the order of their invocation.
MakeRequest(c) ==
    /\ pc[c] = "idle"
    /\ \A d \in Calls : d < c => pc[d] # "idle"
    /\ IF websocket = "None"
       THEN /\ pc' = [pc EXCEPT ![c] = "done"]
            /\ outcome' = [outcome EXCEPT ![c] = "RuntimeError"]
            /\ UNCHANGED <<pending_requests, fut>>
       ELSE /\ fut' = [fut EXCEPT ![c] = PendingFuture]
            /\ pending_requests' = DictSet(pending_requests, uuid4(c), c)
            /\ pc' = [pc EXCEPT ![c] = "send"]
            /\ UNCHANGED outcome
    /\ UNCHANGED <<websocket, connState, listener_task, peerVars, lifeVars>>
    /\ UNCHANGED <<orphans, pureVars>>

\* websocket.send writes the frame, or raises ConnectionClosed.
Send(c) ==
    /\ pc[c] = "send"
    /\ IF connState = "open"
       THEN /\ serverGot' = serverGot \cup {uuid4(c)}
            /\ pc' = [pc EXCEPT ![c] = "drain"]
            /\ UNCHANGED outcome
       ELSE /\ pc' = [pc EXCEPT ![c] = "done"]
            /\ outcome' = [outcome EXCEPT ![c] = "ConnectionClosed"]
            /\ UNCHANGED serverGot
    /\ UNCHANGED <<websocket, connState, listener_task, pending_requests, fut,
                   wire, framesSent, lifeVars>>
    /\ UNCHANGED <<orphans, pureVars>>

\* websocket.send returns to _make_request, which goes on to `await future`.
SendReturn(c) ==
    /\ pc[c] = "drain"
    /\ pc' = [pc EXCEPT ![c] = "await"]
    /\ UNCHANGED <<websocket, connState, listener_task, pending_requests, fut,
                   outcome, peerVars, lifeVars>>
    /\ UNCHANGED <<orphans, pureVars>>

\* `response = await future` resumes with the result; the rest of
\* _make_request returns the result or raises the API exception.
AwaitFuture(c) ==
    /\ pc[c] = "await"
    /\ fut[c].state = "finished"
    /\ pc' = [pc EXCEPT ![c] = "done"]
    /\ outcome' = [outcome EXCEPT ![c] =
                     IF is_error(fut[c].result) THEN "DeribitAPIException"
                     ELSE "returned"]
    /\ UNCHANGED <<websocket, connState, listener_task, pending_requests, fut,
                   peerVars, lifeVars>>
    /\ UNCHANGED <<orphans, pureVars>>

\* The caller's task is cancelled (task.cancel(), or the timeout of an
\* enclosing asyncio.wait_for) while suspended in _make_request: asyncio
\* cancels the future the task awaits, and CancelledError leaves the call.
Cancel(c) ==
    /\ pc[c] \in {"send", "drain", "await"}
    /\ pc' = [pc EXCEPT ![c] = "done"]
    /\ outcome' = [outcome EXCEPT ![c] = "CancelledError"]
    /\ fut' = [fut EXCEPT ![c] =
                 IF pc[c] = "await" /\ fut[c].state = "pending"
                 THEN [state |-> "cancelled", result |-> NoFrame]
                 ELSE fut[c]]
    /\ UNCHANGED <<websocket, connState, listener_task, pending_requests,
                   peerVars, lifeVars>>
    /\ UNCHANGED <<orphans, pureVars>>

\* ------------------------------------------------------------------ Next
Next ==
    \/ aenterFirst
    \/ closeBegin
    \/ closeFinish
    \/ aexitBegin
    \/ aexitFinish
    \/ \E i \in 1 .. NumCalls, b \in Bodies : ServerReply(i, b)
    \/ \E frame \in MalformedFrames \cup {ResponseFrame(UnknownId, "result")} :
          ServerUnsolicited(frame)
    \/ ConnectionLost
    \/ ListenFrame
    \/ ListenClosed
    \/ \E c \in Calls : MakeRequest(c)
    \/ \E c \in Calls : Send(c)
    \/ \E c \in Calls : SendReturn(c)
    \/ \E c \in Calls : AwaitFuture(c)
    \/ \E c \in Calls : Cancel(c)

Spec == Init /\ [][Next]_vars

\* The client is opened again: create() followed by `async with client`, a
\* second `async with`, or an open after close().  The connection that is
\* replaced while its listener still runs is idle and stays silent: nothing
\* is buffered on it and its peer sends nothing more and does not close it.
aenterAgain ==
    /\ websocket # "None"
    /\ orphans < MaxOrphans
    /\ listener_task = "pending" => (wire = << >> /\ connState = "open")
    /\ aenter

NextReopen == Next \/ aenterAgain

\* The client under every sequence of lifecycle operations.
SpecReopen == Init /\ [][NextReopen]_vars

TypeOK ==
    /\ websocket \in {"None", "conn"}
    /\ connState \in {"open", "closed"}
    /\ DOMAIN pending_requests \subseteq 1 .. NumCalls
    /\ \A c \in Calls : pc[c] \in {"idle", "send", "drain", "await", "done"}
    /\ framesSent \in 0 .. MaxFrames
    /\ Len(wire) <= MaxWire

\* ================================================================ claims
\* Call c is suspended in _make_request with its future unresolved.
Awaiting(c) == pc[c] \in {"send", "drain", "await"} /\ fut[c].state = "pending"

\* The listener is about to read a well-formed response frame carrying id i.
Receives(i) ==
    /\ listener_task = "pending"
    /\ wire # << >>
    /\ Head(wire).text = "object"
    /\ Head(wire).id = i

\* C1: of N >= 2 concurrent calls with distinct ids, whatever the order in
\* which _listen receives the replies, a caller's future only ever holds the
\* response carrying its own id, a reply received while its caller waits
\* resolves that caller's future with that very frame, and a resolved future
\* or a finished call never changes again (each caller is woken once).
C1_EachCallerGetsOwnResponse ==
    /\ [](\A c \in Calls :
            fut[c].state = "finished" => fut[c].result.id = uuid4(c))
    /\ [][\A c \in Calls :
            (ListenFrame /\ Receives(uuid4(c)) /\ pc[c] = "await"
                /\ fut[c].state = "pending")
            => fut'[c] = [state |-> "finished", result |-> Head(wire)]]_vars
    /\ [][\A c \in Calls :
            /\ fut[c].state = "finished" => fut'[c] = fut[c]
            /\ outcome[c] # "none" => outcome'[c] = outcome[c] /\ pc'[c] = "done"
         ]_vars

\* Two calls wait at the same time, the reply to the second has been
\* delivered first and the reply to the first is the next frame.
C1_Witness ==
    /\ pc[1] = "await" /\ fut[1].state = "pending"
    /\ pc[2] = "await" /\ fut[2].state = "finished"
    /\ fut[2].result.id = uuid4(2)
    /\ Receives(uuid4(1))

\* C7: the future is registered before the request frame is written: a
\* request that was written and is neither answered nor abandoned has its id
\* in pending_requests, mapped to its own future, so a response read at any
\* point after the write, even before send has returned, resolves it.
C7_RegisteredBeforeWrite ==
    /\ [](\A c \in Calls :
            (uuid4(c) \in serverGot /\ Awaiting(c))
            => /\ uuid4(c) \in DOMAIN pending_requests
               /\ pending_requests[uuid4(c)] = c)
    /\ [][\A c \in Calls :
            (ListenFrame /\ Receives(uuid4(c)) /\ pc[c] = "drain"
                /\ fut[c].state = "pending")
            => fut'[c].state = "finished"]_vars

\* The response was delivered while the caller was still inside send.
C7_Witness == \E c \in Calls : pc[c] = "drain" /\ fut[c].state = "finished"

\* C2: when recv() raises ConnectionClosed in _listen while calls are
\* pending, the loop ends, every call pending at that moment is failed (its
\* future gets the ConnectionClosed exception) and pending_requests is empty
\* afterwards.
C2_ConnectionClosedFailsPending ==
    [][ListenClosed =>
          /\ listener_task' = "returned"
          /\ pending_requests' = << >>
          /\ \A c \in Calls : Awaiting(c) => fut'[c].state = "exception"]_vars

\* C3: when a caller abandons a pending call (its task is cancelled, or the
\* wait times out) the entry of the call leaves pending_requests in that very
\* step, and a response for that id read later is dropped: the loop goes on
\* and no future changes.
C3_AbandonRemovesEntry ==
    /\ [][\A c \in Calls :
            (Cancel(c) /\ fut[c].state = "pending")
            => uuid4(c) \notin DOMAIN pending_requests']_vars
    /\ [][\A c \in Calls :
            (ListenFrame /\ Receives(uuid4(c)) /\ outcome[c] = "CancelledError")
            => (listener_task' = "pending" /\ fut' = fut)]_vars

\* C4: a malformed inbound frame (undecodable text, JSON that is not an
\* object, an object without id) is dropped: after it the loop still runs
\* and every pending entry and future is unchanged.
C4_MalformedFrameDropped ==
    [][(ListenFrame /\ Head(wire) \in MalformedFrames)
       => /\ listener_task' = "pending"
          /\ pending_requests' = pending_requests
          /\ fut' = fut]_vars

\* The client is not Open: never connected, closed by close()/__aexit__, or
\* its receive loop has seen the connection close.
NotOpen == websocket = "None" \/ listener_task \in {"returned", "cancelled"}

\* C5: _make_request on a client that is not Open fails at once with the
\* not-connected failure, sends nothing and leaves pending_requests as it is.
C5_NotConnectedFailsFast ==
    [][\A c \in Calls :
         (MakeRequest(c) /\ NotOpen)
         => /\ pc'[c] = "done"
            /\ outcome'[c] = "RuntimeError"
            /\ pending_requests' = pending_requests
            /\ serverGot' = serverGot]_vars

\* C6: when close() or __aexit__ returns on a connected client, the
\* connection is closed, the listener task is stopped, pending_requests is
\* empty and no caller is left suspended on an unresolved future.
C6_ShutdownReleasesPending ==
    [][(closeFinish \/ aexitFinish)
       => /\ connState' = "closed"
          /\ listener_task' # "pending"
          /\ pending_requests' = << >>
          /\ \A c \in Calls :
                ~(pc'[c] = "await" /\ fut'[c].state = "pending")]_vars

\* C8: when websocket.send raises in _make_request, the call fails with
\* ConnectionClosed and its entry leaves pending_requests; the table never
\* holds the entry of a call whose send failed.
C8_FailedSendRemovesEntry ==
    /\ [][\A c \in Calls :
            (Send(c) /\ connState # "open")
            => /\ outcome'[c] = "ConnectionClosed"
               /\ uuid4(c) \notin DOMAIN pending_requests']_vars
    /\ [](\A c \in Calls :
            outcome[c] = "ConnectionClosed"
            => uuid4(c) \notin DOMAIN pending_requests)

\* The calls in flight: registered, suspended, future unresolved.
InFlight == {c \in Calls : Awaiting(c)}

\* C9: in every reachable state an id is a key of pending_requests if and
\* only if its call is in flight, so the size of the table is the number of
\* calls in flight.
C9_TableIsExactlyInFlight ==
    /\ \A c \in Calls : uuid4(c) \in DOMAIN pending_requests <=> c \in InFlight
    /\ Cardinality(DOMAIN pending_requests) = Cardinality(InFlight)

\* C10: no future is completed twice: a finished future keeps its result,
\* and whenever _listen calls set_result (the id of the frame is a key of
\* pending_requests) the future it finds there is not done.
C10_NoSetResultOnDoneFuture ==
    /\ [][\A c \in Calls :
            fut[c].state = "finished" => fut'[c].result = fut[c].result]_vars
    /\ [][(ListenFrame /\ loads(Head(wire)) = "ok"
              /\ get_id(Head(wire)).exc = "ok"
              /\ get_id(Head(wire)).id \in DOMAIN pending_requests)
          => ~FutureDone(fut[pending_requests[get_id(Head(wire)).id]])]_vars

C13_TimeoutRemovesEntry ==
    [][\A c \in Calls :
         (Cancel(c) /\ pc[c] = "await" /\ fut[c].state = "pending")
         => /\ pc'[c] = "done"
            /\ outcome'[c] # "none"
            /\ uuid4(c) \notin DOMAIN pending_requests']_vars

\* The _listen tasks that are running.
ListenersRunning == (IF listener_task = "pending" THEN 1 ELSE 0) + orphans

\* C15: at any time at most one _listen task exists per client, whatever the
\* sequence of create(), __aenter__, close() and __aexit__: an open never
\* starts a listener while one is running.
C15_SingleListener == ListenersRunning <= 1

\* The lifecycle states of the client, read off its fields.
Closed ==
    /\ closer = "idle"
    /\ websocket = "None" \/ connState = "closed"
    /\ ListenersRunning = 0

Open == websocket # "None" /\ listener_task = "pending" /\ closer = "idle"

\* C16: the lifecycle moves only along Closed -> Opening -> Open -> Closing
\* -> Closed: an open is accepted only in Closed, the listener is started
\* only by an open, Open is left only by a close request or by the listener
\* seeing ConnectionClosed, and a shutdown ends with the connection closed,
\* no listener running and pending_requests drained.
C16_LifecycleOrder ==
    /\ [][(aenterFirst \/ aenterAgain) => Closed]_vars
    /\ [][(listener_task # "pending" /\ listener_task' = "pending")
          => (aenterFirst \/ aenterAgain)]_vars
    /\ [][(Open /\ ~Open')
          => (closeBegin \/ aexitBegin \/ ListenClosed)]_vars
    /\ [][(closeFinish \/ aexitFinish)
          => /\ connState' = "closed"
             /\ ListenersRunning' = 0
             /\ pending_requests' = << >>]_vars

\* The fields of the client that close() can touch.
closeState == <<websocket, connState, listener_task, pending_requests, fut>>

\* C17: close() is idempotent: a close() that follows a completed close() or
\* __aexit__ completes without raising and leaves the client as it was.
C17_CloseIdempotent ==
    /\ [][(closeFinish /\ closeOutcome # "none")
          => (closeOutcome' = "returned" /\ closeState' = closeState)]_vars
    /\ [][(closeBegin /\ closeOutcome # "none")
          => /\ closeState' = closeState
             /\ websocket = "None" => closeOutcome' = "returned"]_vars

\* ============================================================ functions
\* The envelope classes, the error mapping and the registration statement,
\* each applied to one input drawn from a bounded set.

\* ------------------------------------------------------- Python values
PyNone == [t |-> "NoneType", s |-> "", n |-> 0, items |-> {}]

PyStr(s) == [t |-> "str", s |-> s, n |-> 0, items |-> {}]

PyInt(n) == [t |-> "int", s |-> "", n |-> n, items |-> {}]

\* A dict with str keys, as the set of its <<key, value>> items.
PyDict(items) == [t |-> "dict", s |-> "", n |-> 0, items |-> items]

\* bool(v)
truthy(v) ==
    CASE v.t = "NoneType" -> FALSE
      [] v.t = "str" -> v.s # ""
      [] v.t = "int" -> v.n # 0
      [] v.t = "dict" -> v.items # {}

\* a or b
Or(a, b) == IF truthy(a) THEN a ELSE b

\* key in d
has(d, key) == \E p \in d.items : p[1] = key

\* d.get(key, default)
get_default(d, key, default) ==
    IF has(d, key) THEN (CHOOSE p \in d.items : p[1] = key)[2] ELSE default

\* d.get(key)
get(d, key) == get_default(d, key, PyNone)

\* ------------------------------------------------------------- json
\* json.dumps: the JSON text of a value, as its parse tree.
RECURSIVE dumps(_)
dumps(v) ==
    [j |-> CASE v.t = "NoneType" -> "null"
             [] v.t = "str" -> "string"
             [] v.t = "int" -> "number"
             [] v.t = "dict" -> "object",
     chars |-> v.s,
     digits |-> v.n,
     members |-> {<<p[1], dumps(p[2])>> : p \in v.items}]

\* json.loads of a JSON text.
RECURSIVE json_loads(_)
json_loads(text) ==
    [t |-> CASE text.j = "null" -> "NoneType"
             [] text.j = "string" -> "str"
             [] text.j = "number" -> "int"
             [] text.j = "object" -> "dict",
     s |-> text.chars,
     n |-> text.digits,
     items |-> {<<m[1], json_loads(m[2])>> : m \in text.members}]

\* ------------------------------------------------------- JsonRpcRequest
\* str(uuid.uuid4()): a string no caller supplies.
str_uuid4 == PyStr("4d3c2b1a-0000-4000-8000-000000000000")

\* models.JsonRpcRequest(method, params, request_id) after __post_init__.
models_JsonRpcRequest(method, params, request_id) ==
    [method |-> method,
     params |-> IF params = PyNone THEN PyDict({}) ELSE params,
     request_id |-> IF request_id = PyNone THEN str_uuid4 ELSE request_id,
     jsonrpc |-> PyStr("2.0")]

\* Mutant of models_to_dict: the keys are the field names
\* (dataclasses.asdict).
models_asdict(self) ==
    PyDict({<<"jsonrpc", self.jsonrpc>>, <<"method", self.method>>,
          <<"params", self.params>>, <<"request_id", self.request_id>>})

\* models.JsonRpcRequest.to_dict
models_to_dict(self) ==
    PyDict({<<"jsonrpc", self.jsonrpc>>, <<"method", self.method>>,
          <<"params", self.params>>, <<"id", self.request_id>>})

\* jsonrpc.JsonRpcRequest.__init__
jsonrpc_JsonRpcRequest(method, params, request_id) ==
    [method |-> method,
     params |-> Or(params, PyDict({})),
     request_id |-> Or(request_id, str_uuid4)]

\* jsonrpc.JsonRpcRequest.to_dict
jsonrpc_to_dict(self) ==
    PyDict({<<"jsonrpc", PyStr("2.0")>>, <<"method", self.method>>,
          <<"params", self.params>>, <<"id", self.request_id>>})

\* to_json: json.dumps(self.to_dict())
to_json(dict) == dumps(dict)

\* ------------------------------------------------------ JsonRpcResponse
\* models.JsonRpcResponse.from_dict
from_dict(data) ==
    [result |-> get(data, "result"),
     error |-> get(data, "error"),
     request_id |-> get(data, "id"),
     jsonrpc |-> get_default(data, "jsonrpc", PyStr("2.0")),
     metadata |-> PyDict({p \in data.items :
                          p[1] \notin {"result", "error", "id", "jsonrpc"}})]

\* models.JsonRpcResponse.error_code
error_code(self) ==
    IF truthy(self.error) THEN get(self.error, "code") ELSE PyNone

\* models.JsonRpcResponse.error_message
error_message(self) ==
    IF truthy(self.error) THEN get(self.error, "message") ELSE PyNone

\* ------------------------------------------------------------ exceptions
ERROR_CODE_MAP ==
    [code \in {-32600, -32601, -32602, -32603, -32000, -32001, -32002,
               -32003, -32004, -32005, -32099} |->
        CASE code = -32600 -> "InvalidRequest"
          [] code = -32601 -> "MethodNotFoundError"
          [] code = -32602 -> "InvalidParamsError"
          [] code = -32603 -> "InternalError"
          [] code = -32000 -> "AuthenticationError"
          [] code = -32001 -> "AuthorizationError"
          [] code = -32002 -> "NotFoundError"
          [] code = -32003 -> "InvalidSession"
          [] code = -32004 -> "UnsupportedError"
          [] code = -32005 -> "RequestLimitExceeded"
          [] code = -32099 -> "ServiceUnavailableError"]

\* The message a subclass of DeribitAPIException puts in place of a falsy
\* one.
DefaultMessage(class) ==
    CASE class = "InvalidRequest" ->
           "Invalid request (missing or invalid fields)."
      [] class = "AuthenticationError" -> "Authentication failed."
      [] class = "AuthorizationError" ->
           "Client is not authorized to access the requested resource."
      [] class = "NotFoundError" -> "Requested resource was not found."
      [] class = "MethodNotFoundError" -> "Requested method was not found."
      [] class = "InvalidParamsError" -> "Invalid method parameters."
      [] class = "InternalError" -> "Internal error."
      [] class = "ServiceUnavailableError" ->
           "Service temporarily unavailable."
      [] class = "RequestLimitExceeded" -> "Request rate limit exceeded."
      [] class = "InvalidSession" -> "Session is invalid or expired."
      [] class = "UnsupportedError" -> "Feature not supported."

\* A call that returned value.
Returned(value) ==
    [kind |-> "return", value |-> value, exc |-> "", message |-> PyNone]

\* A call that raised the exception class(message).
Raised(class, message) ==
    [kind |-> "raise", value |-> PyNone, exc |-> class, message |-> message]

\* raise_deribit_exception(code, message): the exception keeps its class and
\* self.message only.
raise_deribit_exception(code, message) ==
    LET exc_class == IF code.t = "int" /\ code.n \in DOMAIN ERROR_CODE_MAP
                     THEN ERROR_CODE_MAP[code.n]
                     ELSE "DeribitAPIException"
    IN  IF exc_class = "DeribitAPIException"
        THEN Raised(exc_class, message)
        ELSE Raised(exc_class, Or(message, PyStr(DefaultMessage(exc_class))))

\* _make_request once `await future` has returned response.
resolve(response) ==
    LET jsonrpc_response == from_dict(response)
    IN  IF jsonrpc_response.error # PyNone
        THEN raise_deribit_exception(error_code(jsonrpc_response),
                                     error_message(jsonrpc_response))
        ELSE Returned(jsonrpc_response.result)

\* --------------------------------------------------------------- inputs
Methods == {"public/test", "public/ticker"}

ParamsValues ==
    {PyNone, PyDict({}), PyDict({<<"currency", PyStr("BTC")>>}),
     PyDict({<<"instrument_name", PyStr("BTC-PERPETUAL")>>, <<"depth", PyInt(5)>>})}

RequestIds == {PyNone, PyStr(""), PyStr("test-id-123"), PyStr("0")}

RequestClasses == {"models.JsonRpcRequest", "jsonrpc.JsonRpcRequest"}

RequestArgs ==
    [fn : RequestClasses, method : {PyStr(m) : m \in Methods},
     params : ParamsValues, request_id : RequestIds]

ErrorObjects ==
    {PyDict({<<"code", PyInt(-32602)>>, <<"message", PyStr("Invalid params")>>}),
     PyDict({<<"code", PyInt(10009)>>, <<"message", PyStr("not_enough_funds")>>}),
     PyDict({<<"code", PyInt(-32000)>>, <<"message", PyStr("")>>})}

ResultValues == {PyNone, PyStr("ok"), PyDict({<<"last_price", PyInt(50000)>>})}

\* The decoded response envelopes: result and error each present or absent.
Envelopes ==
    {PyDict({<<"jsonrpc", PyStr("2.0")>>, <<"id", PyStr("test-id-123")>>}
          \cup r \cup e) :
       r \in {{}} \cup {{<<"result", v>>} : v \in ResultValues},
       e \in {{}} \cup {{<<"error", v>>} : v \in ErrorObjects}}

ResolveArgs == [fn : {"resolve"}, response : Envelopes]

\* The tables a registration can find, and the id and future it brings.
RegisterArgs ==
    {[fn |-> "register", table |-> [i \in keys |-> i], id |-> uuid4(c),
      future |-> UnknownId] : keys \in SUBSET {uuid4(c) : c \in Calls},
                              c \in Calls}

\* ------------------------------------------------- jsonrpc.JsonRpcResponse
\* DeribitAPIError(message): the exception class that jsonrpc.py and the
\* nested package's client.py import from .exceptions; str() of it is its
\* message.
DeribitAPIError(message) == Raised("DeribitAPIError", message)

\* str(v) inside an f-string
format(v) ==
    CASE v.t = "NoneType" -> "None"
      [] v.t = "str" -> v.s
      [] v.t = "int" -> ToString(v.n)
      [] v.t = "dict" -> "{...}"

\* The text result builds for the error object of a response.
JsonRpcErrorText(error) ==
    PyStr("JSON-RPC error: "
            \o format(get_default(error, "message", PyStr("Unknown error")))
            \o " (code: "
            \o format(get_default(error, "code", PyStr("unknown"))) \o ")")

\* Mutant of jsonrpc_result: the error object is not looked at.
jsonrpc_result_unchecked(data) == Returned(get(data, "result"))

\* jsonrpc.JsonRpcResponse.result
jsonrpc_result(data) ==
    IF has(data, "error")
    THEN DeribitAPIError(JsonRpcErrorText(get(data, "error")))
    ELSE Returned(get(data, "result"))

ResultArgs == [fn : {"jsonrpc.result"}, response : Envelopes]

\* -------------------------------------------------- requests (HTTP)
\* What one call of requests.Session.request / post does: it returns a
\* response whose json() is body, or raises the exception class raises with
\* the text str(e).
HttpReturns(body) == [raises |-> "none", text |-> "", json |-> body]

HttpRaises(class, text) == [raises |-> class, text |-> text, json |-> PyNone]

\* The subclasses of requests.exceptions.RequestException among the classes
\* an HTTP call raises.
RequestException == {"RequestException", "HTTPError", "ConnectionError"}

HttpOutcomes ==
    {HttpReturns(body) : body \in Envelopes}
    \cup {HttpRaises("ConnectionError", "Connection refused"),
          HttpRaises("HTTPError", "502 Server Error: Bad Gateway"),
          HttpRaises("Exception", "Test error"),
          HttpRaises("ValueError", "Expecting value: line 1 column 1")}

\* An HTTP request as the session received it.
HttpRequest(method, url, params, json) ==
    [method |-> method, url |-> url, params |-> params, json |-> json]

\* The outcome of a client method together with the HTTP requests it made.
Made(out, requests) ==
    [kind |-> out.kind, value |-> out.value, exc |-> out.exc,
     message |-> out.message, requests |-> requests]

\* ------------------------------------ deribit_python/client.py (nested)
\* DeribitClient(api_key, api_secret, testnet=True)
DeribitClient(api_key, api_secret) ==
    [api_key |-> api_key, api_secret |-> api_secret,
     base_url |-> "https://test.deribit.com"]

\* DeribitClient._request
client_request(self, method, endpoint, params, data, http) ==
    Made(IF http.raises = "none"
         THEN Returned(http.json)
         ELSE IF http.raises \in RequestException
         THEN DeribitAPIError(PyStr("API request failed: " \o http.text))
         ELSE Raised(http.raises, PyStr(http.text)),
         <<HttpRequest(method, self.base_url \o endpoint, params, data)>>)

\* The request body create_order builds.
order_data(instrument_name, side, amount, price, type) ==
    PyDict({<<"instrument_name", instrument_name>>, <<"side", side>>,
            <<"amount", amount>>, <<"type", type>>}
           \cup IF type = PyStr("limit") /\ price # PyNone
                THEN {<<"price", price>>} ELSE {})

\* Mutant of create_order: no check of the API key and secret.
create_order_unchecked(self, instrument_name, side, amount, price, type, http) ==
    client_request(self, "POST",
                   IF side = PyStr("buy") THEN "/api/v2/private/buy"
                   ELSE "/api/v2/private/sell",
                   PyNone,
                   order_data(instrument_name, side, amount, price, type),
                   http)

\* DeribitClient.create_order
create_order(self, instrument_name, side, amount, price, type, http) ==
    IF ~truthy(self.api_key) \/ ~truthy(self.api_secret)
    THEN Made(DeribitAPIError(
                PyStr("API key and secret are required for trading")), << >>)
    ELSE client_request(self, "POST",
                        IF side = PyStr("buy") THEN "/api/v2/private/buy"
                        ELSE "/api/v2/private/sell",
                        PyNone,
                        order_data(instrument_name, side, amount, price, type),
                        http)

Credentials == {PyNone, PyStr(""), PyStr("key-or-secret")}

CreateOrderArgs ==
    [fn : {"create_order"}, api_key : Credentials, api_secret : Credentials,
     instrument_name : {PyStr("BTC-PERPETUAL")},
     side : {PyStr("buy"), PyStr("sell")}, amount : {PyInt(10)},
     price : {PyNone, PyInt(50000)},
     type : {PyStr("limit"), PyStr("market")},
     http : {HttpReturns(PyDict({<<"result", PyStr("ok")>>})),
             HttpRaises("ConnectionError", "Connection refused")}]

RequestCallArgs ==
    [fn : {"client._request"}, method : {"GET", "POST"},
     endpoint : {"/test"}, params : {PyNone} \cup (ParamsValues \ {PyNone}),
     http : HttpOutcomes]

\* --------------------------------------------------- client.py (sync)
TESTNET_BASE_URL == "https://test.deribit.com/api/v2"

\* DeribitClient._make_request: the error raised for an error envelope is
\* raised inside the try block, so `except Exception` catches it as well.
sync_make_request(method, params, http) ==
    LET request == models_JsonRpcRequest(method, params, PyNone)
        inside == IF http.raises = "none" THEN resolve(http.json)
                  ELSE Raised(http.raises, PyStr(http.text))
    IN  Made(IF inside.kind = "return"
             THEN inside
             ELSE IF inside.exc \in RequestException
             THEN Raised("DeribitAPIException",
                         PyStr("Request failed: " \o format(inside.message)))
             ELSE Raised("DeribitAPIException",
                         PyStr("Unexpected error: "
                                 \o format(inside.message))),
             <<HttpRequest("POST", TESTNET_BASE_URL, PyNone,
                           models_to_dict(request))>>)

MakeRequestArgs ==
    [fn : {"client._make_request"}, method : {PyStr(m) : m \in Methods},
     params : ParamsValues \ {PyNone}, http : HttpOutcomes]

\* ------------------------------------------- models.JsonRpcResponse.to_dict
\* d.update(m)
dict_update(d, m) ==
    PyDict({p \in d.items : ~has(m, p[1])} \cup m.items)

\* models.JsonRpcResponse.to_dict
response_to_dict(self) ==
    dict_update(
        PyDict({<<"jsonrpc", self.jsonrpc>>, <<"id", self.request_id>>}
               \cup IF self.error # PyNone
                    THEN {<<"error", self.error>>}
                    ELSE {<<"result", self.result>>}),
        self.metadata)

\* The response dictionaries: the envelopes, the same with the timing keys
\* the server adds, and dicts without id and jsonrpc.
ResponseDicts ==
    Envelopes
    \cup {PyDict(e.items \cup {<<"usIn", PyInt(1000)>>,
                               <<"usOut", PyInt(2000)>>,
                               <<"usDiff", PyInt(1000)>>}) : e \in Envelopes}
    \cup {PyDict({}), PyDict({<<"result", PyStr("ok")>>}),
          PyDict({<<"jsonrpc", PyNone>>, <<"id", PyNone>>,
                  <<"result", PyNone>>, <<"error", PyNone>>})}

FromDictArgs == [fn : {"from_dict"}, response : ResponseDicts]

\* -------------------------------------- async_client.py: domain methods
\* The methods that write `await self._make_request(...)`.
AwaitingMethods == {"get_instruments", "get_ticker"}

\* The methods that write `self._make_request(...)` with no await.
NotAwaitingMethods ==
    {"get_order_book", "get_book_summary_by_currency",
     "get_book_summary_by_instrument", "get_contract_size", "get_currencies",
     "get_delivery_prices", "get_expirations", "get_funding_chart_data"}

DomainMethods == AwaitingMethods \cup NotAwaitingMethods

\* self._make_request(method, params) not awaited: a coroutine object; no
\* statement of _make_request has run.
CoroutineObject ==
    [t |-> "coroutine", s |-> "DeribitAsyncClient._make_request", n |-> 0,
     items |-> {}]

\* The class (or list of a class) a domain method builds from result; the
\* empty string where it returns result itself.
ReturnClass(name) ==
    CASE name = "get_instruments" -> "List[Instrument]"
      [] name = "get_ticker" -> "Ticker"
      [] name = "get_order_book" -> "OrderBook"
      [] name = "get_book_summary_by_currency" -> "List[BookSummary]"
      [] name = "get_book_summary_by_instrument" -> "List[BookSummary]"
      [] name = "get_contract_size" -> "ContractSize"
      [] name = "get_currencies" -> "List[Currency]"
      [] name = "get_delivery_prices" -> "DeliveryPriceResponse"
      [] name = "get_expirations" -> ""
      [] name = "get_funding_chart_data" -> "FundingChartData"

\* An instance of class built by from_dict out of data.
Instance(class, data) ==
    [t |-> class, s |-> "", n |-> 0, items |-> {<<"data", data>>}]

\* X.from_dict(result), or the comprehension over result: a coroutine object
\* has no get, no subscript and no iterator.
build(class, result) ==
    IF class = "" THEN Returned(result)
    ELSE IF result.t = "coroutine"
    THEN IF class = "OrderBook"
         THEN Raised("AttributeError",
                     PyStr("'coroutine' object has no attribute 'get'"))
         ELSE Raised("TypeError",
                     PyStr("'coroutine' object is not subscriptable or "
                             \o "iterable"))
    ELSE Returned(Instance(class, result))

\* The outcome of a domain method and the number of requests it dispatched.
Dispatched(out, dispatched) ==
    [kind |-> out.kind, value |-> out.value, exc |-> out.exc,
     message |-> out.message, dispatched |-> dispatched]

\* A domain method, where result is what its _make_request call returns
\* once awaited.
domain_method(name, result) ==
    IF name \in AwaitingMethods
    THEN Dispatched(build(ReturnClass(name), result), 1)
    ELSE Dispatched(build(ReturnClass(name), CoroutineObject), 0)

DomainArgs ==
    [fn : {"domain"}, name : DomainMethods,
     result : {PyDict({<<"last_price", PyInt(50000)>>}),
               PyDict({<<"contract_size", PyInt(10)>>})}]

\* ----------------------------------------------------------- application
InitPure ==
    /\ ClientInit
    /\ args \in RequestArgs \cup ResolveArgs \cup RegisterArgs \cup ResultArgs
                \cup CreateOrderArgs \cup RequestCallArgs \cup MakeRequestArgs
                \cup FromDictArgs \cup DomainArgs
    /\ ret = NoRet

\* The request object, its dict, and the dict decoded from its JSON text.
Built(self, dict) ==
    [kind |-> "request", method |-> self.method, params |-> self.params,
     request_id |-> self.request_id, dict |-> dict,
     decoded |-> json_loads(to_json(dict))]

ModelsRequest ==
    /\ args.fn = "models.JsonRpcRequest"
    /\ ret = NoRet
    /\ LET self == models_JsonRpcRequest(args.method, args.params,
                                         args.request_id)
       IN  ret' = Built(self, models_to_dict(self))
    /\ UNCHANGED <<clientVars, args>>

JsonrpcRequest ==
    /\ args.fn = "jsonrpc.JsonRpcRequest"
    /\ ret = NoRet
    /\ LET self == jsonrpc_JsonRpcRequest(args.method, args.params,
                                          args.request_id)
       IN  ret' = Built(self, jsonrpc_to_dict(self))
    /\ UNCHANGED <<clientVars, args>>

Resolve ==
    /\ args.fn = "resolve"
    /\ ret = NoRet
    /\ ret' = resolve(args.response)
    /\ UNCHANGED <<clientVars, args>>

\* self.pending_requests[msg.request_id] = future
Register ==
    /\ args.fn = "register"
    /\ ret = NoRet
    /\ ret' = [kind |-> "registered", exc |-> "",
               table |-> DictSet(args.table, args.id, args.future)]
    /\ UNCHANGED <<clientVars, args>>

JsonrpcResult ==
    /\ args.fn = "jsonrpc.result"
    /\ ret = NoRet
    /\ ret' = jsonrpc_result(args.response)
    /\ UNCHANGED <<clientVars, args>>

CreateOrder ==
    /\ args.fn = "create_order"
    /\ ret = NoRet
    /\ ret' = create_order(DeribitClient(args.api_key, args.api_secret),
                           args.instrument_name, args.side, args.amount,
                           args.price, args.type, args.http)
    /\ UNCHANGED <<clientVars, args>>

ClientRequest ==
    /\ args.fn = "client._request"
    /\ ret = NoRet
    /\ ret' = client_request(DeribitClient(PyNone, PyNone), args.method,
                             args.endpoint, args.params, PyNone, args.http)
    /\ UNCHANGED <<clientVars, args>>

SyncMakeRequest ==
    /\ args.fn = "client._make_request"
    /\ ret = NoRet
    /\ ret' = sync_make_request(args.method, args.params, args.http)
    /\ UNCHANGED <<clientVars, args>>

\* from_dict(d), its to_dict(), and from_dict of that.
ResponseRoundTrip ==
    /\ args.fn = "from_dict"
    /\ ret = NoRet
    /\ LET first == from_dict(args.response)
       IN  ret' = [kind |-> "response", first |-> first,
                   dict |-> response_to_dict(first),
                   second |-> from_dict(response_to_dict(first))]
    /\ UNCHANGED <<clientVars, args>>

DomainMethod ==
    /\ args.fn = "domain"
    /\ ret = NoRet
    /\ ret' = domain_method(args.name, args.result)
    /\ UNCHANGED <<clientVars, args>>

NextPure ==
    \/ ModelsRequest \/ JsonrpcRequest \/ Resolve \/ Register
    \/ JsonrpcResult \/ CreateOrder \/ ClientRequest \/ SyncMakeRequest
    \/ ResponseRoundTrip \/ DomainMethod

\* Every function applied to every input.
SpecPure == InitPure /\ [][NextPure]_vars

\* The error code an exception lets its handler read: the exception stores
\* no code, so it is the code its class stands for in ERROR_CODE_MAP, if any.
CodeCarried(class) ==
    IF \E code \in DOMAIN ERROR_CODE_MAP : ERROR_CODE_MAP[code] = class
    THEN PyInt(CHOOSE code \in DOMAIN ERROR_CODE_MAP :
                 ERROR_CODE_MAP[code] = class)
    ELSE PyNone

\* An envelope was resolved by _make_request.
Resolved == args.fn = "resolve" /\ ret # NoRet

\* C12: when the future of a call is resolved with a response envelope,
\* _make_request raises an API error carrying the envelope's numeric error
\* code and its message if the envelope has an error object, and otherwise
\* returns exactly the envelope's result value.
C12_ResolutionOutcome ==
    (Resolved /\ (has(args.response, "error") # has(args.response, "result")))
    => IF has(args.response, "error")
       THEN /\ ret.kind = "raise"
            /\ CodeCarried(ret.exc) = get(get(args.response, "error"), "code")
            /\ ret.message = get(get(args.response, "error"), "message")
       ELSE ret = Returned(get(args.response, "result"))

RoundTripped == args.fn \in RequestClasses /\ ret # NoRet

C19_MalformedEnvelopeRejected ==
    (Resolved /\ (has(args.response, "error") = has(args.response, "result")))
    => (ret.kind = "raise" /\ ret.exc = "MalformedFrame")

\* C20: a JsonRpcRequest built with an explicit method, params and
\* request_id carries exactly those: for every supplied id, the empty string
\* included, request_id and to_dict()["id"] are the supplied id, and an id
\* is generated only when none is supplied.
C20_ExplicitValuesKept ==
    RoundTripped
    => /\ ret.method = args.method
       /\ args.params # PyNone => ret.params = args.params
       /\ IF args.request_id # PyNone
          THEN /\ ret.request_id = args.request_id
               /\ get(ret.dict, "id") = args.request_id
          ELSE ret.request_id = str_uuid4

Ordered == args.fn = "create_order" /\ ret # NoRet

\* C22: create_order on a client without an API key or without an API
\* secret raises DeribitAPIError("API key and secret are required ...") and
\* makes no HTTP request; with both it makes exactly one POST, to
\* /api/v2/private/buy when side is "buy" and to /api/v2/private/sell
\* otherwise, whose body carries instrument_name, side, amount, type and,
\* for a limit order with a price, price.
C22_CreateOrder ==
    Ordered
    => IF ~truthy(args.api_key) \/ ~truthy(args.api_secret)
       THEN /\ ret.kind = "raise"
            /\ ret.exc = "DeribitAPIError"
            /\ ret.message
                 = PyStr("API key and secret are required for trading")
            /\ ret.requests = << >>
       ELSE /\ Len(ret.requests) = 1
            /\ ret.requests[1].method = "POST"
            /\ ret.requests[1].url
                 = IF args.side = PyStr("buy")
                   THEN "https://test.deribit.com/api/v2/private/buy"
                   ELSE "https://test.deribit.com/api/v2/private/sell"
            /\ LET body == ret.requests[1].json
               IN  /\ get(body, "instrument_name") = args.instrument_name
                   /\ get(body, "side") = args.side
                   /\ get(body, "amount") = args.amount
                   /\ get(body, "type") = args.type
                   /\ (args.type = PyStr("limit") /\ args.price # PyNone)
                      => get(body, "price") = args.price

\* An order was refused for a missing secret without any HTTP request.
C22_Witness ==
    /\ Ordered
    /\ truthy(args.api_key)
    /\ ~truthy(args.api_secret)
    /\ ret.kind = "raise"
    /\ ret.requests = << >>

\* C23: any exception raised by the HTTP call in the request method of the
\* synchronous client (DeribitClient._request, DeribitClient._make_request),
\* and not only a requests RequestException, reaches the caller as the
\* library's API error with the original error text in its message.
C23_EveryHttpErrorWrapped ==
    /\ (args.fn = "client._request" /\ ret # NoRet
           /\ args.http.raises # "none")
       => /\ ret.kind = "raise"
          /\ ret.exc = "DeribitAPIError"
          /\ ret.message = PyStr("API request failed: " \o args.http.text)
    /\ (args.fn = "client._make_request" /\ ret # NoRet
           /\ args.http.raises # "none")
       => /\ ret.kind = "raise"
          /\ ret.exc = "DeribitAPIException"
          /\ ret.message \in {PyStr("Request failed: " \o args.http.text),
                              PyStr("Unexpected error: " \o args.http.text)}

\* C29: for every response envelope the synchronous and the asynchronous
\* _make_request both return the same result value or both raise the same
\* exception class: ERROR_CODE_MAP[code] for a mapped error code,
\* DeribitAPIException for any other.
C29_SyncAsyncSameOutcome ==
    (args.fn = "client._make_request" /\ ret # NoRet
        /\ args.http.raises = "none")
    => LET async == resolve(args.http.json)
           code == get(get(args.http.json, "error"), "code")
       IN  /\ ret.kind = async.kind
           /\ async.kind = "return" => ret.value = async.value
           /\ async.kind = "raise"
              => /\ ret.exc = async.exc
                 /\ ret.exc = IF code.n \in DOMAIN ERROR_CODE_MAP
                              THEN ERROR_CODE_MAP[code.n]
                              ELSE "DeribitAPIException"

\* C30: for every response dictionary d, from_dict(from_dict(d).to_dict())
\* equals from_dict(d) in result, error, request_id, jsonrpc and metadata,
\* also when d has both result and error, a null result, or extra keys.
C30_ResponseRoundTrip ==
    (args.fn = "from_dict" /\ ret # NoRet)
    => /\ ret.second.result = ret.first.result
       /\ ret.second.error = ret.first.error
       /\ ret.second.request_id = ret.first.request_id
       /\ ret.second.jsonrpc = ret.first.jsonrpc
       /\ ret.second.metadata = ret.first.metadata

\* C26: every domain method of DeribitAsyncClient dispatches exactly one
\* request through _make_request, waits for its response, and builds its
\* return value from the resolved result value.
C26_DomainMethodsThinCallers ==
    (args.fn = "domain" /\ ret # NoRet)
    => /\ ret.dispatched = 1
       /\ ret.kind = "return"
       /\ ret.value = IF ReturnClass(args.name) = "" THEN args.result
                      ELSE Instance(ReturnClass(args.name), args.result)

\* A call whose future is in the table and has not been resolved or
\* cancelled.
Registered(c) == pc[c] \in {"send", "drain", "await"} /\ fut[c].state = "pending"

\* C24: the mutations of pending_requests exclude one another: no
\* registered entry is lost or overwritten between a caller registering it
\* and the loop resolving it, each step applies one whole mutation, an entry
\* is added only by a registration and leaves only when _listen resolves it.
C24_MutationsExclusive ==
    /\ [](\A c \in Calls :
            Registered(c) => /\ uuid4(c) \in DOMAIN pending_requests
                             /\ pending_requests[uuid4(c)] = c)
    /\ [][\A i \in DOMAIN pending_requests :
            IF i \in DOMAIN pending_requests'
            THEN pending_requests'[i] = pending_requests[i]
            ELSE /\ ListenFrame
                 /\ Head(wire).id = i
                 /\ fut'[pending_requests[i]].state = "finished"
                 /\ DOMAIN pending_requests' = DOMAIN pending_requests \ {i}
         ]_vars
    /\ [][\A i \in DOMAIN pending_requests' \ DOMAIN pending_requests :
            /\ \E c \in Calls : MakeRequest(c) /\ uuid4(c) = i
            /\ DOMAIN pending_requests' = DOMAIN pending_requests \cup {i}
         ]_vars

\* The loop resolved one call while another was registered, and the other
\* entry is still in the table.
C24_Witness ==
    \E c, d \in Calls :
        /\ fut[c].state = "finished"
        /\ uuid4(c) \notin DOMAIN pending_requests
        /\ Registered(d)
        /\ uuid4(d) \in DOMAIN pending_requests

\* The client with its tasks scheduled fairly and a connection that goes on
\* delivering replies or closes.
SpecFair ==
    /\ Spec
    /\ WF_vars(ListenFrame)
    /\ WF_vars(ListenClosed)
    /\ WF_vars(closeFinish)
    /\ WF_vars(aexitFinish)
    /\ \A c \in Calls : WF_vars(Send(c))
    /\ \A c \in Calls : WF_vars(SendReturn(c))
    /\ \A c \in Calls : WF_vars(AwaitFuture(c))
    /\ WF_vars(ConnectionLost
                 \/ \E i \in 1 .. NumCalls, b \in Bodies : ServerReply(i, b))

\* C25: every call that registered an entry eventually returns or fails,
\* and its entry eventually leaves pending_requests, when the connection
\* delivers the reply or closes and the tasks are scheduled fairly.
C25_EveryCallCompletes ==
    \A c \in Calls :
        (pc[c] \in {"send", "drain", "await"})
        ~> (pc[c] = "done" /\ uuid4(c) \notin DOMAIN pending_requests)

\* C27: cancelling a caller suspended in _make_request does not stop the
\* others from being resolved: when the reply of a cancelled call arrives,
\* the loop keeps running.
C27_CancelledReplyKeepsLoop ==
    [][(ListenFrame /\ Head(wire).text = "object"
          /\ \E c \in Calls : /\ outcome[c] = "CancelledError"
                              /\ Head(wire).id = uuid4(c))
       => listener_task' = "pending"]_vars

\* C28: close() and __aexit__ complete without raising whatever state the
\* listener is in when they are called: running, returned after the
\* connection closed, or ended by an exception.
C28_CloseNeverRaises ==
    [][(listener_task # "unset"
          /\ (closeFinish \/ aexitFinish
                \/ ((closeBegin \/ aexitBegin) /\ websocket = "None")))
       => closeOutcome' = "returned"]_vars

====
